---- MODULE Spec2Model ----
(***************************************************************************)
(* A model of 2_data_preprocessing/process_daymet_data.py: main() and      *)
(* process_subbasin().  File names and region names are sequences of       *)
(* one-character strings, so that split('_'), glob patterns, sorted() and  *)
(* str.replace() are computed character by character.                      *)
(***************************************************************************)
EXTENDS Integers, Sequences, FiniteSets, TLC

\* Largest number of rows of the shapefile.
MaxRegions == 2

\* Largest number of name pieces (see Pieces) of an archive file name in the
\* discovery specification.
MaxPieces == 3

\* ds.coords['x'] * 1000: kilometres to metres.
KmToM == 1000

\* Python's None, where a frame or a dataset may stand.
None == [none |-> TRUE]

\* ------------------------------------------------------------------ strings

\* Code points of the characters used, for Python's string comparison.
CharCode ==
  [c \in {" ", ".", "/", "1", "2", "?", "A", "B", "C", "_", "c", "n", "p", "q", "t"} |->
     CASE c = " " -> 32 [] c = "." -> 46 [] c = "/" -> 47 [] c = "1" -> 49
       [] c = "2" -> 50 [] c = "?" -> 63 [] c = "A" -> 65 [] c = "B" -> 66
       [] c = "C" -> 67 [] c = "_" -> 95 [] c = "c" -> 99 [] c = "n" -> 110
       [] c = "p" -> 112 [] c = "q" -> 113 [] c = "t" -> 116]

RECURSIVE StrLess(_, _)
\* a < b for Python strings.
StrLess(a, b) ==
  IF b = <<>> THEN FALSE
  ELSE IF a = <<>> THEN TRUE
  ELSE IF Head(a) # Head(b) THEN CharCode[Head(a)] < CharCode[Head(b)]
  ELSE StrLess(Tail(a), Tail(b))

RECURSIVE SortedStrs(_)
\* sorted(list(S)) for a set S of strings.
SortedStrs(S) ==
  IF S = {} THEN <<>>
  ELSE LET m == CHOOSE x \in S : \A y \in S \ {x} : StrLess(x, y)
       IN  <<m>> \o SortedStrs(S \ {m})

RECURSIVE SortedInts(_)
\* The ascending sequence of a set of integers.
SortedInts(S) ==
  IF S = {} THEN <<>>
  ELSE LET m == CHOOSE x \in S : \A y \in S : x <= y
       IN  <<m>> \o SortedInts(S \ {m})

Range(s) == {s[i] : i \in DOMAIN s}

RECURSIVE SplitFirst(_, _)
\* s.split(sep)[0]: the characters before the first sep, all of s without one.
SplitFirst(s, sep) ==
  IF s = <<>> \/ Head(s) = sep THEN <<>>
  ELSE <<Head(s)>> \o SplitFirst(Tail(s), sep)

RECURSIVE Replace(_, _, _)
\* s.replace(old, new) for one-character old and new.
Replace(s, old, new) ==
  IF s = <<>> THEN <<>>
  ELSE <<IF Head(s) = old THEN new ELSE Head(s)>> \o Replace(Tail(s), old, new)

RECURSIVE FnMatch(_, _)
\* pathlib's glob match of one name against one pattern: '*' matches any run
\* of characters, '?' any one character, every other character itself.
FnMatch(s, p) ==
  IF p = <<>> THEN s = <<>>
  ELSE IF Head(p) = "*"
    THEN FnMatch(s, Tail(p)) \/ (s # <<>> /\ FnMatch(Tail(s), p))
  ELSE /\ s # <<>>
       /\ (Head(p) = "?" \/ Head(p) = Head(s))
       /\ FnMatch(Tail(s), Tail(p))

\* netcdf_dir.glob(pattern): the names of the directory's files that match.
Glob(dir, pattern) == {f.name : f \in {g \in dir : FnMatch(g.name, pattern)}}

DotNc == <<".", "n", "c">>

\* The pattern '*.nc' of line 85.
AllNcPattern == <<"*">> \o DotNc

\* The pattern with the separator left out: f'{stem}*.nc'.
StemPatternNoSeparator(stem) == stem \o <<"*">> \o DotNc

\* The pattern f'{stem}_*.nc' of line 98.
StemPattern(stem) == stem \o <<"_", "*">> \o DotNc

\* Line 85: sorted(list(set(f.name.split('_')[0] for f in glob('*.nc')))).
VariableStems(dir) ==
  SortedStrs({SplitFirst(n, "_") : n \in Glob(dir, AllNcPattern)})

\* Line 98: sorted(list(netcdf_dir.glob(f'{stem}_*.nc'))).
NetcdfFiles(dir, stem) == SortedStrs(Glob(dir, StemPattern(stem)))

\* The constant tail of the f-string of line 190.
TimeseriesSuffix ==
  <<"_", "t", "i", "m", "e", "s", "e", "r", "i", "e", "s", ".", "c", "s", "v">>
\* Line 190: subbasin_name.replace(' ', '_').replace('/', '_') + suffix.
OutputFilename(name) ==
  Replace(Replace(name, " ", "_"), "/", "_") \o TimeseriesSuffix

\* ------------------------------------------------------------------- inputs

DAYMET_CRS == "+proj=lcc +lat_1=25 +lat_2=60 +lat_0=42.5 +lon_0=-100"

\* The archive files a run may find: name, time axis, x and y axes in km.
\* A file's data variable is named by the prefix of its file name.
FileUniverse ==
  { [name |-> <<"t", "_", "1">> \o DotNc, time |-> {1, 2}, x |-> {1, 2}, y |-> {1}],
    [name |-> <<"t", "_", "2">> \o DotNc, time |-> {3, 4}, x |-> {1, 2}, y |-> {1}],
    [name |-> <<"p", "_", "2">> \o DotNc, time |-> {3, 4}, x |-> {2}, y |-> {1}],
    [name |-> <<"q">> \o DotNc, time |-> {1, 2}, x |-> {1, 2}, y |-> {1}] }

\* Region geometries as the shapefile holds them: valid or not, and the grid
\* nodes (metres, in the Daymet projection) whose cells the polygon touches.
GeometryUniverse ==
  { [valid |-> TRUE, touches |-> {<<1000, 1000>>}, crs |-> "EPSG:4326"],
    [valid |-> TRUE, touches |-> {<<2000, 1000>>}, crs |-> "EPSG:4326"],
    [valid |-> FALSE, touches |-> {}, crs |-> "EPSG:4326"] }

NameUniverse ==
  { <<"A", " ", "B">>, <<"A", "/", "B">>, <<"C">> }

RowUniverse == [name : NameUniverse, geometry : GeometryUniverse]

\* Sequences of at most n rows with pairwise distinct names.
RowSeqs(n) ==
  { s \in UNION {[1..k -> RowUniverse] : k \in 0..n} :
      \A i, j \in DOMAIN s : i # j => s[i].name # s[j].name }

\* The attribute columns of the vector file.
ShapefileColumns == {"Name", "geometry"}

\* --shapefile_id_column: the default of line 60, or the column that exists.
IdColumnArgs == {"Subbasin", "Name"}

\* ------------------------------------------------------------ library model

\* xr.open_mfdataset(files, combine='by_coords'): one dataset over the union
\* of the files' coordinates, each axis ascending.
OpenMfdataset(dir, files) ==
  LET fs == {f \in dir : f.name \in Range(files)}
  IN  [time |-> SortedInts(UNION {f.time : f \in fs}),
       x |-> SortedInts(UNION {f.x : f \in fs}),
       y |-> SortedInts(UNION {f.y : f \in fs}),
       units |-> "km", crs |-> "unset"]

\* Lines 108-111: the spatial axes times 1000, units 'm'.
RescaleAxes(ds) ==
  [ds EXCEPT !.x = [i \in DOMAIN ds.x |-> ds.x[i] * KmToM],
             !.y = [i \in DOMAIN ds.y |-> ds.y[i] * KmToM],
             !.units = "m"]

\* Lines 113-114: set_spatial_dims and write_crs.
WriteCrs(ds) == [ds EXCEPT !.crs = DAYMET_CRS]

\* gdf.to_crs(DAYMET_CRS), line 174: a new frame, every geometry reprojected.
ToCrs(rows) ==
  [i \in DOMAIN rows |-> [rows[i] EXCEPT !.geometry.crs = DAYMET_CRS]]

\* The grid nodes of ds that the geometry touches (all_touched=True).
Kept(ds, geometry) ==
  {c \in Range(ds.x) \X Range(ds.y) : c \in geometry.touches}

\* ds.rio.clip([geometry], all_touched=True, drop=True) when it returns: the
\* axes keep the coordinates of the touched nodes only.
RioClip(ds, geometry) ==
  [ds EXCEPT !.x = SortedInts({c[1] : c \in Kept(ds, geometry)}),
             !.y = SortedInts({c[2] : c \in Kept(ds, geometry)})]

\* The test for a missing axis alone, the lengths left unchecked.
IsEmptyClipMissingAxisOnly(clipped) ==
  "x" \notin DOMAIN clipped \/ "y" \notin DOMAIN clipped

\* Lines 121-122: a missing or zero-length spatial axis.
IsEmptyClip(clipped) ==
  \/ "x" \notin DOMAIN clipped \/ "y" \notin DOMAIN clipped
  \/ Len(clipped.x) = 0 \/ Len(clipped.y) = 0

\* A missing value: the mean over no node.
NaN == [mean_over |-> {}]

\* Lines 131-138: the spatial mean per time step as a one-column frame.  A
\* value names the nodes it averages.
SpatialMeanFrame(clipped, stem) ==
  [columns |-> <<stem>>,
   index |-> clipped.time,
   data |-> [k \in Range(clipped.time) \X {stem} |->
               [mean_over |-> Range(clipped.x) \X Range(clipped.y)]]]

RECURSIVE ConcatColumns(_)
ConcatColumns(frames) ==
  IF frames = <<>> THEN <<>>
  ELSE Head(frames).columns \o ConcatColumns(Tail(frames))

\* pd.concat(frames, axis=1), line 147: the default join is 'outer', so the
\* index is the union of the frames' indexes and a column has NaN at the
\* dates its own frame lacks.
PdConcat(frames) ==
  LET idx == UNION {Range(frames[i].index) : i \in DOMAIN frames}
      cols == ConcatColumns(frames)
      own(c) == frames[CHOOSE i \in DOMAIN frames : c \in Range(frames[i].columns)]
  IN  [columns |-> cols,
       index |-> SortedInts(idx),
       data |-> [k \in idx \X Range(cols) |->
                   IF k[1] \in Range(own(k[2]).index)
                   THEN own(k[2]).data[k] ELSE NaN]]

\* DataFrame.empty: an axis of length 0.
IsEmptyFrame(df) == Len(df.index) = 0 \/ Len(df.columns) = 0

\* No test before the export.
ExportUnguarded(df) == TRUE

\* Line 189: timeseries_df is not None and not timeseries_df.empty.
ExportGuard(df) == df # None /\ ~IsEmptyFrame(df)

\* df.to_csv(path, mode='a'): rows are added to a file that exists.
ToCsvAppend(dir, filename, df) ==
  [n \in DOMAIN dir \cup {filename} |->
     IF n # filename THEN dir[n]
     ELSE IF n \in DOMAIN dir
       THEN [df EXCEPT !.index = dir[n].index \o df.index]
     ELSE df]

\* df.to_csv(path), line 194: the file is created or overwritten.
ToCsv(dir, filename, df) ==
  [n \in DOMAIN dir \cup {filename} |-> IF n = filename THEN df ELSE dir[n]]

\* The ID column left unchecked.
IdColumnUnchecked(column, columns) == TRUE

\* Line 168: args.shapefile_id_column in gdf.columns.
IdColumnPresent(column, columns) == column \in columns

\* A dataset opened without the with block: nothing closes it.
CloseGridNever(grids, handle) == grids

\* Leaving the with block of line 104, on every path: the dataset is closed.
CloseGrid(grids, handle) == grids \ {handle}

\* An except clause that raises again.
ExceptReraise == "crashed"

\* Lines 126-128: the except clause prints and continues with the next stem.
ExceptContinue == "for_stems"

\* -------------------------------------------------------------------- state

VARIABLES
  shapefile_is_file,      \* args.shapefile_path.is_file()
  netcdf_is_dir,          \* args.netcdf_directory.is_dir()
  id_column,              \* args.shapefile_id_column
  shapefile_rows,         \* the features of the vector file
  archive,                \* the files of args.netcdf_directory
  rio_raises_no_data,     \* whether the installed rioxarray raises
                          \* NoDataInBounds when a clip keeps no node
  outdir,                 \* args.output_directory: file name -> table written
  pc,                     \* the position of the run
  gdf,                    \* main's reprojected frame
  ri,                     \* index of the row of the for loop of line 179
  variable_stems,         \* line 85
  si,                     \* index of the stem of the for loop of line 95
  netcdf_files,           \* line 98
  ds,                     \* the dataset of the with block
  clipped_ds,             \* line 118
  basin_timeseries_list,  \* line 93
  timeseries_df,          \* what process_subbasin returned
  open_grids,             \* the datasets opened and not closed
  log,                    \* what the run printed, and its traceback
  rerun,                  \* whether this is the second run on the same inputs
  first_outdir,           \* outdir when the first run ended
  first_log               \* log of the first run

inputs == <<shapefile_is_file, netcdf_is_dir, id_column, shapefile_rows, archive,
            rio_raises_no_data>>
locals == <<gdf, ri, variable_stems, si, netcdf_files, ds, clipped_ds,
            basin_timeseries_list, timeseries_df>>
history == <<rerun, first_outdir, first_log>>
vars == <<inputs, outdir, pc, locals, open_grids, log, history>>

Entry(kind, region, stem) == [kind |-> kind, region |-> region, stem |-> stem]
NoStem == <<>>

\* The stem and the geometry in hand.
stem == variable_stems[si]
subbasin_name == gdf[ri].name
subbasin_geometry == gdf[ri].geometry
handle == <<ri, si>>

Terminal == {"exited", "crashed", "complete"}

\* Whether the library call at this place may raise an I/O error, and whether
\* it may succeed.  A first run meets either; a second run on the same inputs
\* meets what the first run met (deterministic library behaviour).
IoFails(kind) == rerun => Entry(kind, ri, stem) \in Range(first_log)
IoSucceeds(kind) == rerun => Entry(kind, ri, stem) \notin Range(first_log)

StartOfRun ==
  /\ pc = "main"
  /\ gdf = <<>>
  /\ ri = 0
  /\ variable_stems = <<>>
  /\ si = 0
  /\ netcdf_files = <<>>
  /\ ds = None
  /\ clipped_ds = None
  /\ basin_timeseries_list = <<>>
  /\ timeseries_df = None
  /\ open_grids = {}
  /\ log = <<>>

\* The inputs of a run over the given files; a path that is no file holds
\* no rows, a path that is no directory no files.
InitOver(files) ==
  /\ shapefile_is_file \in BOOLEAN
  /\ netcdf_is_dir \in BOOLEAN
  /\ id_column \in IdColumnArgs
  /\ shapefile_rows \in IF shapefile_is_file THEN RowSeqs(MaxRegions) ELSE {<<>>}
  /\ archive \in IF netcdf_is_dir THEN SUBSET files ELSE {{}}
  /\ rio_raises_no_data \in IF shapefile_is_file /\ netcdf_is_dir
                               THEN BOOLEAN ELSE {FALSE}
  /\ outdir = <<>>
  /\ StartOfRun
  /\ rerun = FALSE
  /\ first_outdir = <<>>
  /\ first_log = <<>>

Init == InitOver(FileUniverse)

\* The files of the two-run specification: one file per name shape.
TwiceFiles == {f \in FileUniverse : f.name # <<"t", "_", "2">> \o DotNc}

InitTwice == InitOver(TwiceFiles)

\* ------------------------------------------------------------------- main()

\* Lines 155-157.
ExitNoShapefile ==
  /\ pc = "main"
  /\ ~shapefile_is_file
  /\ pc' = "exited"
  /\ log' = Append(log, Entry("error_shapefile", 0, NoStem))
  /\ UNCHANGED <<inputs, outdir, locals, open_grids, history>>

\* Lines 158-160.
ExitNoNetcdfDir ==
  /\ pc = "main"
  /\ shapefile_is_file
  /\ ~netcdf_is_dir
  /\ pc' = "exited"
  /\ log' = Append(log, Entry("error_netcdf_dir", 0, NoStem))
  /\ UNCHANGED <<inputs, outdir, locals, open_grids, history>>

\* Lines 162-171: the output directory is made, the vector file read, and the
\* ID column is missing.
ExitNoIdColumn ==
  /\ pc = "main"
  /\ shapefile_is_file
  /\ netcdf_is_dir
  /\ ~IdColumnPresent(id_column, ShapefileColumns)
  /\ pc' = "exited"
  /\ log' = Append(log, Entry("error_id_column", 0, NoStem))
  /\ UNCHANGED <<inputs, outdir, locals, open_grids, history>>

\* Lines 162-177: the checks pass and the frame is reprojected.
MainSetup ==
  /\ pc = "main"
  /\ shapefile_is_file
  /\ netcdf_is_dir
  /\ IdColumnPresent(id_column, ShapefileColumns)
  /\ gdf' = ToCrs(shapefile_rows)
  /\ pc' = "for_rows"
  /\ UNCHANGED <<inputs, outdir, ri, variable_stems, si, netcdf_files, ds,
                 clipped_ds, basin_timeseries_list, timeseries_df, open_grids,
                 log, history>>

\* Lines 179-187: the next row, and the call of process_subbasin with its
\* fresh local variables.
NextRow ==
  /\ pc = "for_rows"
  /\ ri < Len(gdf)
  /\ ri' = ri + 1
  /\ pc' = "discover"
  /\ log' = Append(log, Entry("processing", ri + 1, NoStem))
  /\ variable_stems' = <<>>
  /\ si' = 0
  /\ netcdf_files' = <<>>
  /\ ds' = None
  /\ clipped_ds' = None
  /\ basin_timeseries_list' = <<>>
  /\ UNCHANGED <<inputs, outdir, gdf, timeseries_df, open_grids, history>>

\* Line 198: the loop is over.
Complete ==
  /\ pc = "for_rows"
  /\ ri = Len(gdf)
  /\ pc' = "complete"
  /\ log' = Append(log, Entry("complete", 0, NoStem))
  /\ UNCHANGED <<inputs, outdir, locals, open_grids, history>>

\* Lines 189-194: the table is written.
WriteCsv ==
  /\ pc = "export"
  /\ ExportGuard(timeseries_df)
  /\ outdir' = ToCsv(outdir, OutputFilename(subbasin_name), timeseries_df)
  /\ log' = Append(log, Entry("writing", ri, NoStem))
  /\ pc' = "for_rows"
  /\ UNCHANGED <<inputs, locals, open_grids, history>>

\* Lines 195-196.
SkipExport ==
  /\ pc = "export"
  /\ ~ExportGuard(timeseries_df)
  /\ log' = Append(log, Entry("skip_export", ri, NoStem))
  /\ pc' = "for_rows"
  /\ UNCHANGED <<inputs, outdir, locals, open_grids, history>>

\* ------------------------------------------------------- process_subbasin()

\* Lines 85-89: no stem is found and None is returned.
DiscoverNone ==
  /\ pc = "discover"
  /\ VariableStems(archive) = <<>>
  /\ variable_stems' = <<>>
  /\ timeseries_df' = None
  /\ log' = Append(log, Entry("no_netcdf", ri, NoStem))
  /\ pc' = "export"
  /\ UNCHANGED <<inputs, outdir, gdf, ri, si, netcdf_files, ds, clipped_ds,
                 basin_timeseries_list, open_grids, history>>

\* Lines 85-93.
Discover ==
  /\ pc = "discover"
  /\ VariableStems(archive) # <<>>
  /\ variable_stems' = VariableStems(archive)
  /\ basin_timeseries_list' = <<>>
  /\ si' = 0
  /\ pc' = "for_stems"
  /\ UNCHANGED <<inputs, outdir, gdf, ri, netcdf_files, ds, clipped_ds,
                 timeseries_df, open_grids, log, history>>

\* Lines 95-100: the next stem has files.
LoadFiles ==
  /\ pc = "for_stems"
  /\ si < Len(variable_stems)
  /\ NetcdfFiles(archive, variable_stems[si + 1]) # <<>>
  /\ si' = si + 1
  /\ netcdf_files' = NetcdfFiles(archive, variable_stems[si + 1])
  /\ pc' = "open"
  /\ UNCHANGED <<inputs, outdir, gdf, ri, variable_stems, ds, clipped_ds,
                 basin_timeseries_list, timeseries_df, open_grids, log, history>>

\* Lines 95-100: the next stem has no file, continue.
NoFilesForVariable ==
  /\ pc = "for_stems"
  /\ si < Len(variable_stems)
  /\ NetcdfFiles(archive, variable_stems[si + 1]) = <<>>
  /\ si' = si + 1
  /\ netcdf_files' = <<>>
  /\ pc' = "for_stems"
  /\ UNCHANGED <<inputs, outdir, gdf, ri, variable_stems, ds, clipped_ds,
                 basin_timeseries_list, timeseries_df, open_grids, log, history>>

\* Line 104: the files open as one dataset.
OpenGrid ==
  /\ pc = "open"
  /\ IoSucceeds("traceback_open")
  /\ ds' = OpenMfdataset(archive, netcdf_files)
  /\ open_grids' = open_grids \cup {handle}
  /\ pc' = "reconcile"
  /\ UNCHANGED <<inputs, outdir, gdf, ri, variable_stems, si, netcdf_files,
                 clipped_ds, basin_timeseries_list, timeseries_df, log, history>>

\* Line 104 raises (an I/O error while opening or combining): nothing
\* catches it in process_subbasin or in main.
OpenError ==
  /\ pc = "open"
  /\ IoFails("traceback_open")
  /\ pc' = "crashed"
  /\ log' = Append(log, Entry("traceback_open", ri, stem))
  /\ UNCHANGED <<inputs, outdir, locals, open_grids, history>>

\* Lines 108-114.
Reconcile ==
  /\ pc = "reconcile"
  /\ IoSucceeds("traceback_reconcile")
  /\ ds' = WriteCrs(RescaleAxes(ds))
  /\ pc' = "clip"
  /\ UNCHANGED <<inputs, outdir, gdf, ri, variable_stems, si, netcdf_files,
                 clipped_ds, basin_timeseries_list, timeseries_df, open_grids,
                 log, history>>

\* Lines 108-114 raise: the with block closes the dataset, nothing catches.
ReconcileError ==
  /\ pc = "reconcile"
  /\ IoFails("traceback_reconcile")
  /\ open_grids' = CloseGrid(open_grids, handle)
  /\ pc' = "crashed"
  /\ log' = Append(log, Entry("traceback_reconcile", ri, stem))
  /\ UNCHANGED <<inputs, outdir, locals, history>>

\* Whether ds.rio.clip raises: for a geometry it cannot rasterize, and, in a
\* rioxarray that does so, when no node is in bounds.
ClipRaises(dataset, geometry) ==
  ~geometry.valid \/ (rio_raises_no_data /\ Kept(dataset, geometry) = {})

\* Lines 116-118 raise, lines 126-128 catch.
ClipError ==
  /\ pc = "clip"
  /\ ClipRaises(ds, subbasin_geometry)
  /\ open_grids' = CloseGrid(open_grids, handle)
  /\ log' = Append(log, Entry("clip_error", ri, stem))
  /\ pc' = ExceptContinue
  /\ UNCHANGED <<inputs, outdir, locals, history>>

\* Lines 118-124: the clip returns with a zero-length axis.
ClipEmpty ==
  /\ pc = "clip"
  /\ ~ClipRaises(ds, subbasin_geometry)
  /\ IsEmptyClip(RioClip(ds, subbasin_geometry))
  /\ clipped_ds' = RioClip(ds, subbasin_geometry)
  /\ open_grids' = CloseGrid(open_grids, handle)
  /\ log' = Append(log, Entry("clip_empty", ri, stem))
  /\ pc' = "for_stems"
  /\ UNCHANGED <<inputs, outdir, gdf, ri, variable_stems, si, netcdf_files, ds,
                 basin_timeseries_list, timeseries_df, history>>

\* Lines 118-124: the clip returns data.
ClipOk ==
  /\ pc = "clip"
  /\ ~ClipRaises(ds, subbasin_geometry)
  /\ ~IsEmptyClip(RioClip(ds, subbasin_geometry))
  /\ clipped_ds' = RioClip(ds, subbasin_geometry)
  /\ pc' = "mean"
  /\ UNCHANGED <<inputs, outdir, gdf, ri, variable_stems, si, netcdf_files, ds,
                 basin_timeseries_list, timeseries_df, open_grids, log, history>>

\* Lines 131-140, and the end of the with block.
Mean ==
  /\ pc = "mean"
  /\ IoSucceeds("traceback_mean")
  /\ basin_timeseries_list' =
       Append(basin_timeseries_list, SpatialMeanFrame(clipped_ds, stem))
  /\ open_grids' = CloseGrid(open_grids, handle)
  /\ pc' = "for_stems"
  /\ UNCHANGED <<inputs, outdir, gdf, ri, variable_stems, si, netcdf_files, ds,
                 clipped_ds, timeseries_df, log, history>>

\* Lines 131-135 raise (an I/O error while the values are read): the with
\* block closes the dataset, nothing catches.
MeanError ==
  /\ pc = "mean"
  /\ IoFails("traceback_mean")
  /\ open_grids' = CloseGrid(open_grids, handle)
  /\ pc' = "crashed"
  /\ log' = Append(log, Entry("traceback_mean", ri, stem))
  /\ UNCHANGED <<inputs, outdir, locals, history>>

\* Lines 142-144.
AggregateNone ==
  /\ pc = "for_stems"
  /\ si = Len(variable_stems)
  /\ basin_timeseries_list = <<>>
  /\ timeseries_df' = None
  /\ log' = Append(log, Entry("no_data", ri, NoStem))
  /\ pc' = "export"
  /\ UNCHANGED <<inputs, outdir, gdf, ri, variable_stems, si, netcdf_files, ds,
                 clipped_ds, basin_timeseries_list, open_grids, history>>

\* Lines 146-148.
Aggregate ==
  /\ pc = "for_stems"
  /\ si = Len(variable_stems)
  /\ basin_timeseries_list # <<>>
  /\ timeseries_df' = PdConcat(basin_timeseries_list)
  /\ pc' = "export"
  /\ UNCHANGED <<inputs, outdir, gdf, ri, variable_stems, si, netcdf_files, ds,
                 clipped_ds, basin_timeseries_list, open_grids, log, history>>

\* ----------------------------------------------------------------- two runs

\* The program is run again with the same arguments on the same files.
RunAgain ==
  /\ pc \in Terminal
  /\ ~rerun
  /\ rerun' = TRUE
  /\ first_outdir' = outdir
  /\ first_log' = log
  /\ pc' = "main"
  /\ gdf' = <<>>
  /\ ri' = 0
  /\ variable_stems' = <<>>
  /\ si' = 0
  /\ netcdf_files' = <<>>
  /\ ds' = None
  /\ clipped_ds' = None
  /\ basin_timeseries_list' = <<>>
  /\ timeseries_df' = None
  /\ open_grids' = {}
  /\ log' = <<>>
  /\ UNCHANGED <<inputs, outdir>>

Next ==
  \/ ExitNoShapefile \/ ExitNoNetcdfDir \/ ExitNoIdColumn \/ MainSetup
  \/ NextRow \/ Complete \/ WriteCsv \/ SkipExport
  \/ DiscoverNone \/ Discover \/ LoadFiles \/ NoFilesForVariable
  \/ OpenGrid \/ OpenError \/ Reconcile \/ ReconcileError
  \/ ClipError \/ ClipEmpty \/ ClipOk \/ Mean \/ MeanError
  \/ AggregateNone \/ Aggregate

\* One run of the program.
Spec == Init /\ [][Next]_vars

NextTwice == Next \/ RunAgain

\* Two runs in succession on the same inputs.
SpecTwice == InitTwice /\ [][NextTwice]_vars

\* ---------------------------------------------- discovery and loader alone

\* The pieces archive file names are made of in the discovery specification.
Pieces == {<<"t">>, <<"_">>, <<"?">>, DotNc}

RECURSIVE Flatten(_)
Flatten(ps) == IF ps = <<>> THEN <<>> ELSE Head(ps) \o Flatten(Tail(ps))

\* The file names of at most MaxPieces pieces.
PieceNames == {Flatten(ps) : ps \in UNION {[1..k -> Pieces] : k \in 1..MaxPieces}}

PieceFile(n) == [name |-> n, time |-> {1, 2}, x |-> {1, 2}, y |-> {1}]

\* A directory of at most two files with such names.
InitDiscovery ==
  /\ shapefile_is_file = TRUE
  /\ netcdf_is_dir = TRUE
  /\ id_column = "Name"
  /\ shapefile_rows = <<>>
  /\ archive \in {{PieceFile(a), PieceFile(b)} : a, b \in PieceNames} \cup {{}}
  /\ rio_raises_no_data = FALSE
  /\ outdir = <<>>
  /\ pc = "discover"
  /\ gdf = <<>>
  /\ ri = 0
  /\ variable_stems = <<>>
  /\ si = 0
  /\ netcdf_files = <<>>
  /\ ds = None
  /\ clipped_ds = None
  /\ basin_timeseries_list = <<>>
  /\ timeseries_df = None
  /\ open_grids = {}
  /\ log = <<>>
  /\ rerun = FALSE
  /\ first_outdir = <<>>
  /\ first_log = <<>>

\* Line 85 applied to the directory.
ApplyDiscover ==
  /\ pc = "discover"
  /\ variable_stems' = VariableStems(archive)
  /\ si' = 0
  /\ pc' = "for_stems"
  /\ UNCHANGED <<inputs, outdir, gdf, ri, netcdf_files, ds, clipped_ds,
                 basin_timeseries_list, timeseries_df, open_grids, log, history>>

\* Line 98 applied to the next stem.
ApplyLoader ==
  /\ pc = "for_stems"
  /\ si < Len(variable_stems)
  /\ si' = si + 1
  /\ netcdf_files' = NetcdfFiles(archive, variable_stems[si + 1])
  /\ UNCHANGED <<inputs, outdir, pc, gdf, ri, variable_stems, ds, clipped_ds,
                 basin_timeseries_list, timeseries_df, open_grids, log, history>>

NextDiscovery == ApplyDiscover \/ ApplyLoader

\* Discovery and loader over directories of arbitrary file names.
SpecDiscovery == InitDiscovery /\ [][NextDiscovery]_vars

\* ------------------------------------------------------------------ claims

\* What the inputs say, without the program: the archive files of an
\* identifier, and whether a region's polygon touches a node of its grid.
EndsWithNc(n) == Len(n) >= 3 /\ SubSeq(n, Len(n) - 2, Len(n)) = DotNc
HasPrefixSep(n, s) ==
  /\ Len(n) > Len(s)
  /\ SubSeq(n, 1, Len(s)) = s
  /\ n[Len(s) + 1] = "_"
  /\ "_" \notin Range(s)
FilesOfIdentifier(s) ==
  {f \in archive : EndsWithNc(f.name) /\ HasPrefixSep(f.name, s)}
ClipSucceeded(r, s) ==
  /\ shapefile_rows[r].geometry.valid
  /\ \E x \in UNION {f.x : f \in FilesOfIdentifier(s)} :
       \E y \in UNION {f.y : f \in FilesOfIdentifier(s)} :
         <<1000 * x, 1000 * y>> \in shapefile_rows[r].geometry.touches
SourceDates(s) == UNION {f.time : f \in FilesOfIdentifier(s)}

Logged(kind, region) ==
  \E i \in DOMAIN log : log[i].kind = kind /\ log[i].region = region
ClipFailureKinds == {"clip_empty", "clip_error"}
TracebackKinds == {"traceback_open", "traceback_reconcile", "traceback_mean"}
BadArguments ==
  ~shapefile_is_file \/ ~netcdf_is_dir \/ id_column \notin ShapefileColumns

\* C1: the table process_subbasin returns for a region has as its columns
\* exactly the discovered identifiers whose clip against the region kept a
\* node, each once, and no column is filled with missing values only.
C1_ColumnsAreSuccessfulClips ==
  (pc = "export" /\ timeseries_df # None) =>
    /\ Range(timeseries_df.columns) =
         {s \in Range(variable_stems) : ClipSucceeded(ri, s)}
    /\ Len(timeseries_df.columns) = Cardinality(Range(timeseries_df.columns))
    /\ \A c \in Range(timeseries_df.columns) :
         \E d \in Range(timeseries_df.index) : timeseries_df.data[<<d, c>>] # NaN

\* A table is returned that lacks a discovered identifier whose clip was empty.
C1_Witness ==
  /\ pc = "export"
  /\ timeseries_df # None
  /\ Logged("clip_empty", ri)
  /\ Len(timeseries_df.columns) < Len(variable_stems)

\* C2: with a missing shapefile, a missing raster directory or a missing ID
\* column the run only exits: no region is processed and nothing is written.
C2_FatalBeforeAnyRegion ==
  BadArguments =>
    /\ pc \in {"main", "exited"}
    /\ ri = 0
    /\ outdir = <<>>
    /\ \A i \in DOMAIN log : log[i].kind \notin {"processing", "writing"}

\* The run has exited for the ID column, with regions and files at hand.
C2_Witness ==
  /\ pc = "exited"
  /\ shapefile_rows # <<>>
  /\ archive # {}
  /\ Logged("error_id_column", 0)

\* C3: a clip that keeps no node or raises skips that (region, variable) pair
\* only: the loop goes on with the next stem of the same region, nothing
\* gathered or written is lost, a run is never ended by it, and a run that
\* completes has processed every region in order.
C3_ClipFailureSkipsOnlyThePair ==
  /\ [][(pc = "clip" /\ ~ClipSucceeded(ri, stem)) =>
          /\ pc' = "for_stems"
          /\ ri' = ri /\ si' = si /\ variable_stems' = variable_stems
          /\ basin_timeseries_list' = basin_timeseries_list
          /\ outdir' = outdir]_vars
  /\ [](pc = "crashed" => log[Len(log)].kind \in TracebackKinds)
  /\ [](pc = "complete" =>
          \A r \in 1..Len(gdf) : \E i \in DOMAIN log :
            /\ log[i].kind = "processing" /\ log[i].region = r
            /\ \A j \in 1..(i - 1) : log[j].region <= r)

\* A clip failed in the first region, which still wrote its table from a
\* later variable, and the second region wrote its table too.
C3_Witness ==
  /\ pc = "complete"
  /\ \E i, j, k \in DOMAIN log :
       /\ i < j /\ j < k
       /\ log[i].kind \in ClipFailureKinds /\ log[i].region = 1
       /\ log[j].kind = "writing" /\ log[j].region = 1
       /\ log[k].kind = "writing" /\ log[k].region = 2

\* C4: an I/O error while a variable is opened, reconciled or read is
\* skipped like a clip failure, so it never ends the run.
C4_IoErrorTakesSkipPath ==
  /\ pc # "crashed"
  /\ \A i \in DOMAIN log : log[i].kind \notin TracebackKinds

\* C5: a region with no variable processed returns no table, writes no file,
\* and main goes on to the next row.
C5_NoVariableNoTable ==
  /\ []((pc = "export" /\ basin_timeseries_list = <<>>) => timeseries_df = None)
  /\ [][(pc = "export" /\ basin_timeseries_list = <<>>) =>
          /\ outdir' = outdir
          /\ pc' = "for_rows"
          /\ ri' = ri]_vars

\* The first region's variables were all skipped, it exported nothing, and
\* the run went on to write the second region's table.
C5_Witness ==
  /\ pc = "complete"
  /\ \E i, j, k \in DOMAIN log :
       /\ i < j /\ j < k
       /\ log[i].kind \in ClipFailureKinds /\ log[i].region = 1
       /\ log[j].kind = "skip_export" /\ log[j].region = 1
       /\ log[k].kind = "writing" /\ log[k].region = 2

RECURSIVE ExpectedFrames(_, _)
\* The frames of region r for the stems, as the steps of process_subbasin
\* compute them when nothing fails.
ExpectedFrames(r, stems) ==
  IF stems = <<>> THEN <<>>
  ELSE LET s == Head(stems)
           grid == WriteCrs(RescaleAxes(
                     OpenMfdataset(archive, NetcdfFiles(archive, s))))
       IN  (IF ClipSucceeded(r, s)
            THEN <<SpatialMeanFrame(RioClip(grid, gdf[r].geometry), s)>>
            ELSE <<>>) \o ExpectedFrames(r, Tail(stems))

YieldedData(r) == Logged("writing", r)

\* C6: after a run that completes every region that yielded data has its own
\* file holding its own table, and there are as many files as such regions.
C6_OneFilePerRegion ==
  pc = "complete" =>
    /\ \A r \in 1..Len(gdf) : YieldedData(r) =>
         /\ OutputFilename(gdf[r].name) \in DOMAIN outdir
         /\ outdir[OutputFilename(gdf[r].name)] =
              PdConcat(ExpectedFrames(r, VariableStems(archive)))
    /\ Cardinality(DOMAIN outdir) =
         Cardinality({r \in 1..Len(gdf) : YieldedData(r)})

\* C8: at most one dataset is open at any moment, it is the one of the pair
\* in hand, and none is open between pairs, at export or when the run ends.
C8_OneGridAtATime ==
  /\ Cardinality(open_grids) <= 1
  /\ pc \in {"reconcile", "clip", "mean"} => open_grids = {handle}
  /\ pc \notin {"reconcile", "clip", "mean"} => open_grids = {}

\* A second dataset of a region is open after the first one's clip failed.
C8_Witness ==
  /\ pc = "clip"
  /\ si >= 2
  /\ \E i \in DOMAIN log : log[i].kind \in ClipFailureKinds /\ log[i].region = ri

\* C10: every column of a region's table has rows for exactly the dates of
\* its own source files, in ascending order.
C10_NoDateRowAdded ==
  (pc = "export" /\ timeseries_df # None) =>
    /\ \A c \in Range(timeseries_df.columns) :
         Range(timeseries_df.index) = SourceDates(c)
    /\ \A i, j \in DOMAIN timeseries_df.index :
         i < j => timeseries_df.index[i] < timeseries_df.index[j]

\* C7: a second run on the same inputs changes neither the regions nor the
\* archive, and ends with the output directory as the first run left it.
C7_SecondRunChangesNothing ==
  /\ []((rerun /\ pc \in Terminal) => outdir = first_outdir)
  /\ [][shapefile_rows' = shapefile_rows /\ archive' = archive]_vars

\* The second run completed after writing the files again.
C7_Witness ==
  /\ rerun
  /\ pc = "complete"
  /\ \E r \in 1..Len(gdf) : Logged("writing", r)
  /\ DOMAIN first_outdir # {}

\* The stem the loader was last applied to.
LoadedStem == variable_stems[si]
NcNames == {f.name : f \in {g \in archive : EndsWithNc(g.name)}}

\* C9 as stated: every discovered identifier has a file in the loader, and
\* the loader finds exactly the files discovered under that identifier.
C9_DiscoveryInvariant ==
  (pc = "for_stems" /\ si >= 1) =>
    /\ netcdf_files # <<>>
    /\ Range(netcdf_files) = {n \in NcNames : SplitFirst(n, "_") = LoadedStem}

\* C9 as amended: for an identifier without glob metacharacters the loader
\* finds exactly the '.nc' files that hold a '_' and whose prefix before the
\* first '_' is the identifier, in sorted order; so it finds a file for every
\* identifier that was discovered from a name with a '_'.
C9_LoaderFindsPrefixedFiles ==
  (pc = "for_stems" /\ si >= 1 /\ "?" \notin Range(LoadedStem)) =>
    /\ Range(netcdf_files) = {n \in NcNames : HasPrefixSep(n, LoadedStem)}
    /\ Len(netcdf_files) = Cardinality(Range(netcdf_files))
    /\ \A i, j \in DOMAIN netcdf_files :
         i < j => StrLess(netcdf_files[i], netcdf_files[j])
    /\ (\E n \in NcNames : HasPrefixSep(n, LoadedStem)) => netcdf_files # <<>>

\* The loader found a file for an identifier in a directory that also holds
\* a '.nc' file without a '_'.
C9_Witness ==
  /\ pc = "for_stems"
  /\ si >= 1
  /\ "?" \notin Range(LoadedStem)
  /\ netcdf_files # <<>>
  /\ \E n \in NcNames : "_" \notin Range(n)

====
